---------------------------- MODULE Spec2Model ----------------------------
(***************************************************************************)
(* A model of the question-bank narration tools:                           *)
(*   DHBW-Game/TTS/chatterbox/questions_tts.py  (normalizer, assembler,    *)
(*                                               main)                     *)
(*   TTS/tts_controller.py                      (generate_tts)             *)
(*                                                                         *)
(* Text is a sequence of characters.  A character is a one-character       *)
(* string; the seven non-ASCII symbols of the symbol table are named by    *)
(* their code point ("u2265" is the greater-or-equal sign), as is the      *)
(* grave accent ("u0060").                                                 *)
(***************************************************************************)
EXTENDS Integers, Sequences, FiniteSets, TLC

VARIABLES
    READING_MODE,           \* questions_tts.py: "natural" or "literal"
    INCLUDE_CORRECT_ANSWER, \* questions_tts.py configuration flags
    INCLUDE_EXPLANATION,
    EXPLANATION_SEPARATE_FILE,
    raw,                    \* normalizer: the input text
    spoken,                 \* normalizer: to_spoken_english(raw), or Unset
    args,                   \* assembler: the arguments of the calls
    parts,                  \* assembler: result of build_question_parts
    answer,                 \* assembler: result of build_answer_text
    explanation,            \* assembler: result of build_explanation_text
    bank,                   \* main: the <Question> elements of questions.xml
    files,                  \* main: which of the two start-up files exist
    pc,                     \* main / generate_tts: position in the run
    idx,                    \* main: the loop index (1-based)
    units,                  \* main / generate_tts: model.generate calls so far
    saved,                  \* main / generate_tts: files written so far
    count,                  \* main: the counter of generated files
    xml,                    \* generate_tts: the <Question> elements
    voice,                  \* generate_tts: <<>> for None, or <<path>>
    samples,                \* generate_tts: the voice files that exist
    lecturer_ids,           \* generate_tts: ids still to iterate over
    lecturer_id,            \* generate_tts: id of the iteration under way
    voice_path,             \* generate_tts: sample in use
    qi                      \* generate_tts: inner loop index (0-based)

vars == <<READING_MODE, INCLUDE_CORRECT_ANSWER, INCLUDE_EXPLANATION,
          EXPLANATION_SEPARATE_FILE, raw, spoken, args, parts, answer,
          explanation, bank, files, pc, idx, units, saved, count,
          xml, voice, samples, lecturer_ids, lecturer_id, voice_path, qi>>

None == "None"      \* Python's None, where a string is expected
---------------------------------------------------------------------------
(* Character classes of Python's re module, restricted to ASCII.           *)

LowerSeq ==
    <<"a", "b", "c", "d", "e", "f", "g", "h", "i", "j", "k", "l", "m",
      "n", "o", "p", "q", "r", "s", "t", "u", "v", "w", "x", "y", "z">>

UpperSeq ==
    <<"A", "B", "C", "D", "E", "F", "G", "H", "I", "J", "K", "L", "M",
      "N", "O", "P", "Q", "R", "S", "T", "U", "V", "W", "X", "Y", "Z">>

Range(s) == {s[i] : i \in DOMAIN s}

Letter == Range(LowerSeq) \cup Range(UpperSeq)              \* [A-Za-z]
Digit == {"0", "1", "2", "3", "4", "5", "6", "7", "8", "9"} \* \d
WordChar == Letter \cup Digit \cup {"_"}                    \* \w
Space == {" ", "\t", "\n", "\r", "\f"}                      \* \s

\* str.upper() on one ASCII letter
ToUpper(c) ==
    IF c \in Range(LowerSeq)
    THEN UpperSeq[CHOOSE i \in DOMAIN LowerSeq : LowerSeq[i] = c]
    ELSE c

---------------------------------------------------------------------------
(* Scanning helpers.  re.sub and str.replace scan left to right and        *)
(* replace the leftmost matches, which do not overlap.                     *)

Min(S) == CHOOSE x \in S : \A y \in S : x <= y
Max(S) == CHOOSE x \in S : \A y \in S : x >= y

\* the first index j >= i with j past the end or t[j] not in S
SkipWhile(t, i, S) ==
    LET stop == {j \in i..Len(t) : t[j] \notin S}
    IN  IF stop = {} THEN Max({i, Len(t) + 1}) ELSE Min(stop)

\* the last index j <= i with j = 0 or t[j] not in S
SkipBack(t, i, S) ==
    LET stop == {j \in 1..i : t[j] \notin S}
    IN  IF stop = {} THEN 0 ELSE Max(stop)

\* the first index j >= i with t[j] = c, or 0 when there is none
Find(t, i, c) ==
    LET hit == {j \in i..Len(t) : t[j] = c}
    IN  IF hit = {} THEN 0 ELSE Min(hit)

StartsWithAt(t, i, pat) ==
    /\ i + Len(pat) - 1 <= Len(t)
    /\ \A k \in 1..Len(pat) : t[i + k - 1] = pat[k]

NoMatch == [ok |-> FALSE, out |-> <<>>, end |-> 0]

Backtick == "u0060"     \* the grave accent, which a TLA+ string cannot hold

BigOPrefix == <<"B", "i", "g", " ", "O", " ", "o", "f", " ">>

PowerInfix ==
    <<" ", "t", "o", " ", "t", "h", "e", " ", "p", "o", "w", "e", "r", " ",
      "o", "f", " ">>

\* a literal pattern (re.sub of an escaped literal, str.replace)
MatchLit(rule, t, i) ==
    IF StartsWithAt(t, i, rule.pat)
    THEN [ok |-> TRUE, out |-> rule.rep, end |-> i + Len(rule.pat)]
    ELSE NoMatch

\* a literal command followed by \b (the command ends in a letter)
MatchWord(rule, t, i) ==
    IF /\ StartsWithAt(t, i, rule.pat)
       /\ \/ i + Len(rule.pat) > Len(t)
          \/ t[i + Len(rule.pat)] \notin WordChar
    THEN [ok |-> TRUE, out |-> rule.rep, end |-> i + Len(rule.pat)]
    ELSE NoMatch

\* \\[a-zA-Z]+ , deleted
MatchCommand(t, i) ==
    IF t[i] = "\\" /\ i < Len(t) /\ t[i + 1] \in Letter
    THEN [ok |-> TRUE, out |-> <<>>, end |-> SkipWhile(t, i + 1, Letter)]
    ELSE NoMatch

\* a backtick, one or more non-backticks, a backtick: replaced by the span
MatchBackticks(t, i) ==
    LET j == IF t[i] = Backtick THEN Find(t, i + 1, Backtick) ELSE 0
    IN  IF j > i + 1
        THEN [ok |-> TRUE, out |-> SubSeq(t, i + 1, j - 1), end |-> j + 1]
        ELSE NoMatch

\* \bO\s*\(\s*([^)]+)\s*\) , replaced by "Big O of \1"
MatchBigO(t, i) ==
    LET p == SkipWhile(t, i + 1, Space)                 \* the "("
        j == IF p <= Len(t) THEN Find(t, p + 1, ")") ELSE 0
        g == SkipWhile(t, p + 1, Space)
    IN  IF /\ t[i] = "O"
           /\ (i = 1 \/ t[i - 1] \notin WordChar)
           /\ p <= Len(t)
           /\ t[p] = "("
           /\ j > p + 1
        THEN [ok |-> TRUE,
              \* \s* gives back one character when the content is all space
              out |-> BigOPrefix
                        \o SubSeq(t, IF g < j THEN g ELSE j - 1, j - 1),
              end |-> j + 1]
        ELSE NoMatch

\* (\w)\s*\^\s*(\d+) , replaced by "\1 to the power of \2"
MatchPower(t, i) ==
    LET p == SkipWhile(t, i + 1, Space)                 \* the "^"
        q == SkipWhile(t, p + 1, Space)                 \* the first digit
        e == SkipWhile(t, q, Digit)
    IN  IF /\ t[i] \in WordChar
           /\ p <= Len(t)
           /\ t[p] = "^"
           /\ q <= Len(t)
           /\ t[q] \in Digit
        THEN [ok |-> TRUE,
              out |-> <<t[i]>> \o PowerInfix \o SubSeq(t, q, e - 1),
              end |-> e]
        ELSE NoMatch

\* \s+ , replaced by one space
MatchSpaces(t, i) ==
    IF t[i] \in Space
    THEN [ok |-> TRUE, out |-> <<" ">>, end |-> SkipWhile(t, i, Space)]
    ELSE NoMatch

\* the match of rule at index i of t
Match(rule, t, i) ==
    CASE rule.kind = "lit" -> MatchLit(rule, t, i)
      [] rule.kind = "word" -> MatchWord(rule, t, i)
      [] rule.kind = "cmd" -> MatchCommand(t, i)
      [] rule.kind = "backticks" -> MatchBackticks(t, i)
      [] rule.kind = "bigO" -> MatchBigO(t, i)
      [] rule.kind = "power" -> MatchPower(t, i)
      [] rule.kind = "spaces" -> MatchSpaces(t, i)

\* re.sub(rule, t) from index i on
RECURSIVE Sub(_, _, _)
Sub(rule, t, i) ==
    LET starts == {j \in i..Len(t) : Match(rule, t, j).ok}
    IN  IF starts = {} THEN SubSeq(t, i, Len(t))
        ELSE LET j == Min(starts)
                 m == Match(rule, t, j)
             IN  SubSeq(t, i, j - 1) \o m.out \o Sub(rule, t, m.end)

Rule(kind) == [kind |-> kind, pat |-> <<>>, rep |-> <<>>]

\* str.strip()
Strip(t) == SubSeq(t, SkipWhile(t, 1, Space), SkipBack(t, Len(t), Space))

\* re.sub(r"\s+", " ", t).strip()
CollapseSpaces(t) == Strip(Sub(Rule("spaces"), t, 1))

---------------------------------------------------------------------------
(* The normalizer: questions_tts.py, speakify_math to to_spoken_english.   *)

\* The ordered rule list.  kind "lit" is a literal pattern, "word" a literal
\* command followed by \b, "cmd" the catch-all for any remaining command.
LATEX_PAIRS ==
    << [kind |-> "lit", pat |-> <<"\\", "(">>, rep |-> <<>>],
       [kind |-> "lit", pat |-> <<"\\", ")">>, rep |-> <<>>],
       [kind |-> "lit", pat |-> <<"\\", "[">>, rep |-> <<>>],
       [kind |-> "lit", pat |-> <<"\\", "]">>, rep |-> <<>>],
       [kind |-> "word", pat |-> <<"\\", "l", "o", "g">>,
        rep |-> <<"l", "o", "g">>],
       [kind |-> "word", pat |-> <<"\\", "t", "i", "m", "e", "s">>,
        rep |-> <<" ", "t", "i", "m", "e", "s", " ">>],
       [kind |-> "word", pat |-> <<"\\", "c", "d", "o", "t">>,
        rep |-> <<" ", "t", "i", "m", "e", "s", " ">>],
       [kind |-> "lit",
        pat |-> <<"\\", "b", "e", "g", "i", "n", "{", "p", "m", "a", "t",
                  "r", "i", "x", "}">>,
        rep |-> <<"t", "h", "e", " ", "m", "a", "t", "r", "i", "x", ":",
                  " ">>],
       [kind |-> "lit",
        pat |-> <<"\\", "e", "n", "d", "{", "p", "m", "a", "t", "r", "i",
                  "x", "}">>,
        rep |-> <<>>],
       [kind |-> "lit", pat |-> <<"\\", "\\">>, rep |-> <<";", " ">>],
       [kind |-> "lit", pat |-> <<"&">>, rep |-> <<",", " ">>],
       [kind |-> "cmd", pat |-> <<>>, rep |-> <<>>] >>

\* for pat, rep in pairs[k..]: t = re.sub(pat, rep, t).  No rule matches
\* the empty text, so the loop is cut short once the text is empty.
RECURSIVE ApplyPairs(_, _, _)
ApplyPairs(t, pairs, k) ==
    IF k > Len(pairs) \/ Len(t) = 0 THEN t
    ELSE ApplyPairs(Sub(pairs[k], t, 1), pairs, k + 1)

\* a table of str.replace calls as rules
TableRules(table) ==
    [k \in DOMAIN table |->
        [kind |-> "lit", pat |-> <<table[k].sym>>, rep |-> table[k].rep]]

\* The "common symbols" chain of str.replace calls, in order.
SYMBOL_WORDS ==
    << [sym |-> "u2265",
        rep |-> <<" ", "g", "r", "e", "a", "t", "e", "r", " ", "o", "r",
                  " ", "e", "q", "u", "a", "l", " ", "t", "o", " ">>],
       [sym |-> "u2264",
        rep |-> <<" ", "l", "e", "s", "s", " ", "o", "r", " ", "e", "q",
                  "u", "a", "l", " ", "t", "o", " ">>],
       [sym |-> "u2192", rep |-> <<" ", "a", "r", "r", "o", "w", " ">>],
       [sym |-> "u2208", rep |-> <<" ", "i", "n", " ">>],
       [sym |-> "u2211", rep |-> <<" ", "s", "u", "m", " ">>],
       [sym |-> "u220F",
        rep |-> <<" ", "p", "r", "o", "d", "u", "c", "t", " ">>],
       [sym |-> "u221A",
        rep |-> <<" ", "s", "q", "u", "a", "r", "e", " ", "r", "o", "o",
                  "t", " ", "o", "f", " ">>] >>

\* backticks, the rule list, Big O, powers, symbols: applied in this order
SpeakifyRules ==
    <<Rule("backticks")>> \o LATEX_PAIRS \o <<Rule("bigO"), Rule("power")>>
        \o TableRules(SYMBOL_WORDS)

speakify_math(text) == CollapseSpaces(ApplyPairs(text, SpeakifyRules, 1))

\* The rep dict of literalize_symbols, in insertion order.
LITERAL_WORDS ==
    << [sym |-> "(",
        rep |-> <<" ", "o", "p", "e", "n", " ", "p", "a", "r", "e", "n",
                  "t", "h", "e", "s", "i", "s", " ">>],
       [sym |-> ")",
        rep |-> <<" ", "c", "l", "o", "s", "e", " ", "p", "a", "r", "e",
                  "n", "t", "h", "e", "s", "i", "s", " ">>],
       [sym |-> "[",
        rep |-> <<" ", "o", "p", "e", "n", " ", "b", "r", "a", "c", "k",
                  "e", "t", " ">>],
       [sym |-> "]",
        rep |-> <<" ", "c", "l", "o", "s", "e", " ", "b", "r", "a", "c",
                  "k", "e", "t", " ">>],
       [sym |-> ":", rep |-> <<" ", "c", "o", "l", "o", "n", " ">>],
       [sym |-> ",", rep |-> <<" ", "c", "o", "m", "m", "a", " ">>],
       [sym |-> "?",
        rep |-> <<" ", "q", "u", "e", "s", "t", "i", "o", "n", " ", "m",
                  "a", "r", "k", " ">>],
       [sym |-> "=", rep |-> <<" ", "e", "q", "u", "a", "l", "s", " ">>],
       [sym |-> "+", rep |-> <<" ", "p", "l", "u", "s", " ">>],
       [sym |-> "-", rep |-> <<" ", "m", "i", "n", "u", "s", " ">>],
       [sym |-> "*", rep |-> <<" ", "t", "i", "m", "e", "s", " ">>],
       [sym |-> "/", rep |-> <<" ", "s", "l", "a", "s", "h", " ">>],
       [sym |-> "^", rep |-> <<" ", "c", "a", "r", "e", "t", " ">>] >>

literalize_symbols(text) ==
    CollapseSpaces(ApplyPairs(text, TableRules(LITERAL_WORDS), 1))

\* A normalizer without the literal pass: what to_spoken_english would be
\* if it did not look at READING_MODE.
to_spoken_english_natural(r) == speakify_math(r)

\* READING_MODE is the module-level setting the function reads
to_spoken_english(r) ==
    IF READING_MODE = "literal"
    THEN literalize_symbols(speakify_math(r))
    ELSE speakify_math(r)

---------------------------------------------------------------------------
(* The utterance assembler: questions_tts.py, build_question_parts to      *)
(* build_explanation_text.  A call returns Ok(value) or raises.            *)

Ok(v) == [exc |-> None, val |-> v]
Raise(e) == [exc |-> e, val |-> <<>>]
Unset == [exc |-> "unset", val |-> <<>>]    \* a call not made yet

INTRO_PROMPT ==
    <<"N", "o", "t", " ", "s", "o", " ", "f", "a", "s", "t", ",", " ", "I",
      " ", "h", "a", "v", "e", " ", "a", " ", "q", "u", "e", "s", "t", "i",
      "o", "n", " ", "f", "o", "r", " ", "y", "o", "u", ".">>

letters == <<"A", "B", "C", "D", "E", "F">>

\* re.match(r"\s*([A-Za-z])\s*:\s*(.*)", opt): "." stops at a line feed
LabelMatch(opt) ==
    LET a == SkipWhile(opt, 1, Space)                   \* the letter
        b == SkipWhile(opt, a + 1, Space)               \* the ":"
        c == SkipWhile(opt, b + 1, Space)               \* group 2 starts
        n == Find(opt, c, "\n")
        e == IF n = 0 THEN Len(opt) ELSE n - 1          \* group 2 ends
    IN  IF /\ a <= Len(opt)
           /\ opt[a] \in Letter
           /\ b <= Len(opt)
           /\ opt[b] = ":"
        THEN [ok |-> TRUE, letter |-> opt[a], body |-> SubSeq(opt, c, e)]
        ELSE [ok |-> FALSE, letter |-> None, body |-> <<>>]

\* Indexing that rejects negative indexes instead of counting from the end.
PyIndexNoWrap(list, i) ==
    IF 0 <= i /\ i < Len(list) THEN Ok(list[i + 1]) ELSE Raise("IndexError")

\* list[i] for a Python index i (negative indexes count from the end)
PyIndex(list, i) ==
    IF 0 <= i /\ i < Len(list) THEN Ok(list[i + 1])
    ELSE IF -Len(list) <= i /\ i < 0 THEN Ok(list[Len(list) + i + 1])
    ELSE Raise("IndexError")

\* " ".join(strs)
RECURSIVE Join(_, _)
Join(strs, k) ==
    IF k > Len(strs) THEN <<>>
    ELSE IF k = Len(strs) THEN strs[k]
    ELSE strs[k] \o <<" ">> \o Join(strs, k + 1)

\* one pass of the loop body of build_question_parts: (letter, body) of the
\* option at Python index i, or the IndexError of letters[i]
OptionLabel(opt, i) ==
    LET m == LabelMatch(opt)
    IN  IF m.ok THEN Ok([letter |-> ToUpper(m.letter), body |-> m.body])
        ELSE LET l == PyIndex(letters, i)
             IN  IF l.exc = None
                 THEN Ok([letter |-> l.val, body |-> opt])
                 ELSE l

\* f"Option {letter}: {to_spoken_english(body)}."
SpokenOption(lab) ==
    <<"O", "p", "t", "i", "o", "n", " ", lab.letter, ":", " ">>
        \o to_spoken_english(lab.body) \o <<".">>

\* returns (part_intro_question, part_options); q_idx and topic are unused
build_question_parts(q_idx, topic, q_text, options) ==
    LET q_spoken == to_spoken_english(q_text)
        labs == [i \in 1..Len(options) |-> OptionLabel(options[i], i - 1)]
    IN  IF \E i \in 1..Len(options) : labs[i].exc # None
        THEN Raise("IndexError")
        ELSE LET spoken_opts ==
                     [i \in 1..Len(options) |-> SpokenOption(labs[i].val)]
             IN  Ok([part_intro_question |->
                         INTRO_PROMPT \o <<" ">> \o q_spoken \o <<".">>,
                     part_options |-> Join(spoken_opts, 1)])

build_answer_text(correct_idx, options) ==
    LET letter == IF 0 <= correct_idx /\ correct_idx < Len(letters)
                  THEN letters[correct_idx + 1]
                  ELSE "A"
        r == PyIndex(options, correct_idx)
    IN  IF r.exc # None THEN r
        ELSE LET m == LabelMatch(r.val)
                 body == IF m.ok THEN m.body ELSE r.val
             IN  Ok(<<"T", "h", "e", " ", "c", "o", "r", "r", "e", "c", "t",
                      " ", "a", "n", "s", "w", "e", "r", " ", "i", "s", " ",
                      "o", "p", "t", "i", "o", "n", " ", letter, ":", " ">>
                        \o to_spoken_english(body) \o <<".">>)

build_explanation_text(expl) ==
    Ok(<<"E", "x", "p", "l", "a", "n", "a", "t", "i", "o", "n", ":", " ">>
         \o to_spoken_english(expl))

---------------------------------------------------------------------------
(* Bounded inputs.                                                         *)

Modes == {"natural", "literal"}

\* all sequences over S of length at most n
SeqsUpTo(S, n) == UNION {[1..k -> S] : k \in 0..n}

MaxRawLen == 7
RawAlphabet == {"\\", "(", ")", "O"}

RawSamples ==
    { <<"O", "(", "n", " ", "l", "o", "g", " ", "n", ")">>,
      <<"n", "^", "2">>,
      <<"a", " ", "u2265", " ", "b">>,
      <<"x", " ", "+", " ", "y">>,
      <<"\\", "f", "o", "o", " ", "b", "a", "r">>,
      <<Backtick, "x", Backtick, " ", "&", " ", "\\", "l", "o", "g", " ",
        "n">>,
      <<"\\", "b", "e", "g", "i", "n", "{", "p", "m", "a", "t", "r", "i",
        "x", "}", "a", "&", "b", "\\", "\\", "c", "&", "d", "\\", "e", "n",
        "d", "{", "p", "m", "a", "t", "r", "i", "x", "}">>,
      <<"\\", "(", "a", "\\", "t", "i", "m", "e", "s", " ", "b", "\\", ")",
        " ", "\\", "[", "c", "\\", "c", "d", "o", "t", " ", "d", "\\", "]">>,
      <<"u2211", "u2208", "u2192", "u2264", "u220F", "u221A", "x">> }

RawInputs == SeqsUpTo(RawAlphabet, MaxRawLen) \cup RawSamples

MaxOpts == 3
OptionTexts ==
    { <<"A", ":", " ", "x">>,                   \* labelled
      <<"y">>,                                  \* unlabelled
      <<"z">>,
      <<"b", ":", "(", "w", ")">> }             \* lower-case label

Repeat(x, n) == [i \in 1..n |-> x]

\* lists longer than the letter sequence, and a labelled two-line option
ExtraOptionLists ==
    { Repeat(<<"y">>, Len(letters) + 1),
      Repeat(<<"A", ":", " ", "x">>, Len(letters) + 1),
      Repeat(<<"y">>, Len(letters)) \o << <<"b", ":", "(", "w", ")">> >>,
      << <<"y">>, <<"A", ":", " ", "x", "\n", "y">> >> }

OptionLists == SeqsUpTo(OptionTexts, MaxOpts) \cup ExtraOptionLists

QuestionTexts ==
    { <<"W", "h", "a", "t", " ", "i", "s", " ", "n", "^", "2", "?">>,
      <<"f", "(", "a", ",", "b", ")", " ", "=", " ", "a", "/", "b", " ",
        "-", " ", "[", "c", "*", "d", "]", " ", "+", " ", "e", ":">> }

ExplanationTexts ==
    { <<>>,
      <<"O", "(", "n", ")", " ", "=", " ", "n", "^", "2">> }

Call(fn, text, options, correct_idx) ==
    [fn |-> fn, text |-> text, options |-> options,
     correct_idx |-> correct_idx]

Calls ==
    {Call("build_question_parts", t, o, 0) :
        t \in QuestionTexts, o \in OptionLists}
    \cup UNION {{Call("build_answer_text", <<>>, o, i) :
                    i \in (-Len(o) - 1)..Len(o)} : o \in OptionLists}
    \cup {Call("build_explanation_text", t, <<>>, 0) :
            t \in ExplanationTexts}

---------------------------------------------------------------------------
(* Idle values of the variables a specification does not use.              *)

NormIdle == raw = <<>> /\ spoken = Unset

PartsIdle ==
    /\ args = Call("none", <<>>, <<>>, 0)
    /\ parts = Unset
    /\ answer = Unset
    /\ explanation = Unset

ConfigDefault ==
    /\ INCLUDE_CORRECT_ANSWER = FALSE
    /\ INCLUDE_EXPLANATION = FALSE
    /\ EXPLANATION_SEPARATE_FILE = TRUE

MainIdle ==
    /\ bank = <<>>
    /\ files = {}
    /\ idx = 0
    /\ count = 0

RunIdle == units = <<>> /\ saved = <<>>

CtlIdle ==
    /\ xml = <<>>
    /\ voice = <<>>
    /\ samples = {}
    /\ lecturer_ids = {}
    /\ lecturer_id = <<>>
    /\ voice_path = <<>>
    /\ qi = 0

normVars == <<raw, spoken>>
partsVars == <<args, parts, answer, explanation>>
configVars ==
    <<INCLUDE_CORRECT_ANSWER, INCLUDE_EXPLANATION, EXPLANATION_SEPARATE_FILE>>
mainVars == <<bank, files, idx, count>>
runVars == <<units, saved>>
ctlVars ==
    <<xml, voice, samples, lecturer_ids, lecturer_id, voice_path, qi>>

---------------------------------------------------------------------------
(* The normalizer applied to one input.                                    *)

InitNorm ==
    /\ READING_MODE \in Modes
    /\ raw \in RawInputs
    /\ spoken = Unset
    /\ pc = "call"
    /\ ConfigDefault /\ PartsIdle /\ MainIdle /\ RunIdle /\ CtlIdle

Normalize ==
    /\ pc = "call"
    /\ spoken' = Ok(to_spoken_english(raw))
    /\ pc' = "returned"
    /\ UNCHANGED <<READING_MODE, raw, configVars, partsVars, mainVars,
                   runVars, ctlVars>>

NextNorm == Normalize

SpecNorm == InitNorm /\ [][NextNorm]_vars

---------------------------------------------------------------------------
(* The assembler's functions, each applied to one argument list.           *)

InitParts ==
    /\ READING_MODE \in Modes
    /\ args \in Calls
    /\ parts = Unset
    /\ answer = Unset
    /\ explanation = Unset
    /\ pc = "call"
    /\ ConfigDefault /\ NormIdle /\ MainIdle /\ RunIdle /\ CtlIdle

CallBuildQuestionParts ==
    /\ pc = "call"
    /\ args.fn = "build_question_parts"
    /\ parts' = build_question_parts(1, "General", args.text, args.options)
    /\ pc' = "returned"
    /\ UNCHANGED <<READING_MODE, args, answer, explanation, configVars,
                   normVars, mainVars, runVars, ctlVars>>

CallBuildAnswerText ==
    /\ pc = "call"
    /\ args.fn = "build_answer_text"
    /\ answer' = build_answer_text(args.correct_idx, args.options)
    /\ pc' = "returned"
    /\ UNCHANGED <<READING_MODE, args, parts, explanation, configVars,
                   normVars, mainVars, runVars, ctlVars>>

CallBuildExplanationText ==
    /\ pc = "call"
    /\ args.fn = "build_explanation_text"
    /\ explanation' = build_explanation_text(args.text)
    /\ pc' = "returned"
    /\ UNCHANGED <<READING_MODE, args, parts, answer, configVars,
                   normVars, mainVars, runVars, ctlVars>>

NextParts ==
    \/ CallBuildQuestionParts
    \/ CallBuildAnswerText
    \/ CallBuildExplanationText

SpecParts == InitParts /\ [][NextParts]_vars

---------------------------------------------------------------------------
(* questions_tts.py, main.  A <Question> element is a record               *)
(*   text    : <<>> when <Text> is missing or has no text, else <<text>>   *)
(*   options : the texts of the <Option> elements, as written              *)
(*   corr    : <<>> or <<text>> of <CorrectOptionIndex>                    *)
(*   expl    : <<>> when <Explanation> is missing or empty, else <<text>>  *)
(* The synthesis engine and torchaudio are taken to succeed.               *)

DigitSeq == <<"0", "1", "2", "3", "4", "5", "6", "7", "8", "9">>

DigitValue(c) == (CHOOSE i \in DOMAIN DigitSeq : DigitSeq[i] = c) - 1

RECURSIVE Decimal(_, _)
Decimal(s, k) ==
    IF k = 0 THEN 0 ELSE 10 * Decimal(s, k - 1) + DigitValue(s[k])

\* int(s) for a stripped string: an optional sign, then decimal digits
PyInt(s) ==
    LET signed == Len(s) > 0 /\ s[1] \in {"+", "-"}
        digits == IF signed THEN Tail(s) ELSE s
    IN  IF Len(digits) > 0 /\ \A k \in DOMAIN digits : digits[k] \in Digit
        THEN Ok(IF signed /\ s[1] = "-"
                THEN 0 - Decimal(digits, Len(digits))
                ELSE Decimal(digits, Len(digits)))
        ELSE Raise("ValueError")

NonEmpty(o) == Len(o) > 0

\* the options list main builds: stripped texts, empty ones left out
ParseOptions(q) ==
    SelectSeq([i \in DOMAIN q.options |-> Strip(q.options[i])], NonEmpty)

\* spoken_ans without the range check and without the except clause
SpokenAnswerUnchecked(q, options) ==
    IF INCLUDE_CORRECT_ANSWER /\ q.corr # <<>>
    THEN LET n == PyInt(Strip(q.corr[1]))
         IN  IF n.exc = None THEN build_answer_text(n.val, options) ELSE n
    ELSE Ok(<<>>)

\* spoken_ans: <<>> for None
SpokenAnswer(q, options) ==
    IF INCLUDE_CORRECT_ANSWER /\ q.corr # <<>>
    THEN LET n == PyInt(Strip(q.corr[1]))
         IN  IF n.exc = None /\ 0 <= n.val /\ n.val < Len(options)
             THEN build_answer_text(n.val, options)
             ELSE Ok(<<>>)              \* not in range, or ValueError caught
    ELSE Ok(<<>>)

\* spoken_expl: <<>> for None
SpokenExplanation(q) ==
    IF INCLUDE_EXPLANATION /\ q.expl # <<>>
    THEN build_explanation_text(Strip(q.expl[1]))
    ELSE Ok(<<>>)

\* The same join with the explanation ahead of the answer.
CombinedTextExplanationFirst(part_q, part_opts, spoken_ans, spoken_expl) ==
    Join(SelectSeq(<<part_q, part_opts, spoken_expl, spoken_ans>>,
                   NonEmpty), 1)

\* " ".join(x for x in [part_q, part_opts, spoken_ans, spoken_expl] if x)
CombinedText(part_q, part_opts, spoken_ans, spoken_expl) ==
    Join(SelectSeq(<<part_q, part_opts, spoken_ans, spoken_expl>>,
                   NonEmpty), 1)

Unit(kind, i, text) == [kind |-> kind, idx |-> i, text |-> text]
File(kind, i) == [kind |-> kind, idx |-> i]

\* the model.generate calls of the "optional extras" block
ExtraUnits(i, p, ans, expl) ==
    IF ans = <<>> /\ expl = <<>> THEN <<>>
    ELSE IF EXPLANATION_SEPARATE_FILE
         THEN (IF ans # <<>> THEN <<Unit("answer", i, ans)>> ELSE <<>>)
              \o (IF expl # <<>>
                  THEN <<Unit("explanation", i, expl)>>
                  ELSE <<>>)
         ELSE <<Unit("combined", i,
                     CombinedText(p.part_intro_question, p.part_options,
                                  ans, expl))>>

\* the files the iteration writes after qNN.wav, one per extra unit
ExtraFiles(extra) == [k \in DOMAIN extra |-> File(extra[k].kind, extra[k].idx)]

\* count += 1 for the answer and the explanation file, not the combined one
ExtraCount(extra) ==
    Cardinality({k \in DOMAIN extra : extra[k].kind # "combined"})

MaxQuestions == 2

BankText == <<" ", "n", "^", "2", "?">>
BankOptions == << <<"b", ":", "(", "w", ")">>, <<" ">>, <<"y">> >>
BankExplanation == <<"O", "(", "n", ")", " ">>

QuestionRecord(text, options, corr, expl) ==
    [text |-> text, options |-> options, corr |-> corr, expl |-> expl]

QuestionRecords ==
    { QuestionRecord(<<>>, BankOptions, << <<"1">> >>, <<BankExplanation>>),
      QuestionRecord(<<BankText>>, Repeat(<<"y">>, Len(letters) + 1),
                     << <<"1">> >>, <<BankExplanation>>) }
    \cup { QuestionRecord(<<BankText>>, BankOptions, c, <<BankExplanation>>) :
             c \in { <<>>, << <<"1">> >>, << <<"x">> >>, << <<"7">> >>,
                     << <<"-", "1">> >> } }
    \cup { QuestionRecord(<<BankText>>, BankOptions, c, <<>>) :
             c \in { << <<" ", "1">> >>, << <<"x">> >> } }

Banks == SeqsUpTo(QuestionRecords, MaxQuestions)

InitMain ==
    /\ READING_MODE = "natural"
    /\ INCLUDE_CORRECT_ANSWER \in BOOLEAN
    /\ INCLUDE_EXPLANATION \in BOOLEAN
    /\ EXPLANATION_SEPARATE_FILE \in BOOLEAN
    /\ files \in SUBSET {"questions.xml", "Aufzeichnung.wav"}
    /\ bank = <<>>
    /\ pc = "start"
    /\ idx = 0
    /\ count = 0
    /\ NormIdle /\ PartsIdle /\ RunIdle /\ CtlIdle

mainFixed == <<READING_MODE, configVars, files, normVars, partsVars, ctlVars>>

\* raise FileNotFoundError: the question bank or the voice prompt is missing
MissingInput ==
    /\ pc = "start"
    /\ files # {"questions.xml", "Aufzeichnung.wav"}
    /\ pc' = "fatal"
    /\ UNCHANGED <<mainFixed, bank, idx, count, runVars>>

\* ET.parse, and the loop starts at idx 1
LoadBank ==
    /\ pc = "start"
    /\ files = {"questions.xml", "Aufzeichnung.wav"}
    /\ bank' \in Banks
    /\ idx' = 1
    /\ pc' = "loop"
    /\ UNCHANGED <<mainFixed, count, runVars>>

\* "Skipping question {idx}: no <Text>"
SkipQuestion ==
    /\ pc = "loop"
    /\ idx <= Len(bank)
    /\ bank[idx].text = <<>>
    /\ idx' = idx + 1
    /\ UNCHANGED <<mainFixed, bank, pc, count, runVars>>

\* build_question_parts raises: nothing in main catches it
AbortQuestion ==
    /\ pc = "loop"
    /\ idx <= Len(bank)
    /\ bank[idx].text # <<>>
    /\ build_question_parts(idx, "General", Strip(bank[idx].text[1]),
                            ParseOptions(bank[idx])).exc # None
    /\ pc' = "crashed"
    /\ UNCHANGED <<mainFixed, bank, idx, count, runVars>>

\* the writes of one pass once the texts are built: qNN.wav, then the extras
Emit(p, extra) ==
    /\ units' = units \o <<Unit("question", idx, p.part_intro_question),
                           Unit("options", idx, p.part_options)>> \o extra
    /\ saved' = Append(saved, File("q", idx)) \o ExtraFiles(extra)
    /\ count' = count + 1 + ExtraCount(extra)

LoopBody(p, ans, expl) ==
    /\ p.exc = None
    /\ IF ans.exc # None
       THEN \* build_answer_text raises after qNN.wav is written
            /\ Emit(p.val, <<>>)
            /\ pc' = "crashed"
            /\ idx' = idx
       ELSE /\ Emit(p.val, ExtraUnits(idx, p.val, ans.val, expl.val))
            /\ pc' = "loop"
            /\ idx' = idx + 1

\* one pass of the loop body for a question that has a <Text>
SpeakQuestion ==
    /\ pc = "loop"
    /\ idx <= Len(bank)
    /\ bank[idx].text # <<>>
    /\ \E q_text \in {Strip(bank[idx].text[1])},
          options \in {ParseOptions(bank[idx])} :
          \E p \in {build_question_parts(idx, "General", q_text, options)},
             spoken_ans \in {SpokenAnswer(bank[idx], options)},
             spoken_expl \in {SpokenExplanation(bank[idx])} :
             LoopBody(p, spoken_ans, spoken_expl)
    /\ UNCHANGED <<mainFixed, bank>>

\* "Done. Generated {count} file(s)"
FinishMain ==
    /\ pc = "loop"
    /\ idx > Len(bank)
    /\ pc' = "done"
    /\ UNCHANGED <<mainFixed, bank, idx, count, runVars>>

NextMain ==
    \/ MissingInput
    \/ LoadBank
    \/ SkipQuestion
    \/ AbortQuestion
    \/ SpeakQuestion
    \/ FinishMain

SpecMain == InitMain /\ [][NextMain]_vars

---------------------------------------------------------------------------
(* tts_controller.py, generate_tts.  A <Question> element is a record      *)
(*   lecturer : <<>> when there is no <LecturerID>, else <<its text>>      *)
(*   tts      : <<>> when there is no <TTSFriendlyText>, else <<its text>> *)
(* where the text of an empty element is None.  A path is the pair of its  *)
(* directory and the file name without ".wav"; samples is the set of voice *)
(* files that exist.  Parsing, loading the engine and synthesis are taken  *)
(* to succeed, so the except clause never runs.                            *)

voices_dir == "voices"

MaxCtlQuestions == 2

LecturerElems == {<<>>, <<None>>, <<"berninger">>, <<"meyer">>}
TtsElems == {<<>>, <<None>>, <<"Hello">>}
CtlQuestions == [lecturer : LecturerElems, tts : TtsElems]
SingleVoice == <<"custom", "voice">>

\* os.path.join(voices_dir, f"{lecturer_id}.wav")
SamplePath(id) == <<voices_dir, id>>

\* truth value of an Optional[str]
Truthy(text) == text # None /\ text # ""

use_single == voice # <<>>

default_voice == SamplePath("berninger")

\* the set built by the first pass over the questions
CollectLecturers ==
    IF use_single THEN {None}
    ELSE { IF xml[k].lecturer # <<>> /\ Truthy(xml[k].lecturer[1])
           THEN xml[k].lecturer[1]
           ELSE "berninger" : k \in DOMAIN xml }

\* Voice resolution without the fallback to the default sample.
ResolveVoiceOwnOnly(id) ==
    IF use_single THEN voice[1] ELSE SamplePath(id)

\* the voice file for one pass of the lecturer loop, after the fallback
ResolveVoice(id) ==
    IF use_single THEN voice[1]
    ELSE IF SamplePath(id) \in samples THEN SamplePath(id)
         ELSE default_voice

question_lecturer(q) ==
    IF q.lecturer # <<>> THEN q.lecturer[1]
    ELSE IF ~use_single THEN "berninger" ELSE None

tts_text(q) == IF q.tts # <<>> THEN q.tts[1] ELSE None

Speech(i, text, path) ==
    [kind |-> "question", idx |-> i, text |-> text, voice |-> path]

InitCtl ==
    /\ xml \in SeqsUpTo(CtlQuestions, MaxCtlQuestions)
    /\ voice \in {<<>>, <<SingleVoice>>}
    /\ samples \in SUBSET {SamplePath("berninger"), SamplePath("meyer"),
                           SingleVoice}
    /\ lecturer_ids = {}
    /\ lecturer_id = <<>>
    /\ voice_path = <<>>
    /\ qi = 0
    /\ pc = "start"
    /\ READING_MODE = "natural"
    /\ NormIdle /\ PartsIdle /\ ConfigDefault /\ MainIdle /\ RunIdle

ctlFixed ==
    <<READING_MODE, configVars, mainVars, normVars, partsVars,
      xml, voice, samples>>

\* up to the lecturer loop: the ids to serve
StartCtl ==
    /\ pc = "start"
    /\ lecturer_ids' = CollectLecturers
    /\ pc' = "lecturers"
    /\ UNCHANGED <<ctlFixed, lecturer_id, voice_path, qi, runVars>>

\* "Voice sample not found at ... Skipping."
SkipLecturer ==
    /\ pc = "lecturers"
    /\ \E id \in lecturer_ids :
          /\ ResolveVoice(id) \notin samples
          /\ lecturer_ids' = lecturer_ids \ {id}
    /\ UNCHANGED <<ctlFixed, pc, lecturer_id, voice_path, qi, runVars>>

\* "Using voice file: ...", and the inner loop starts at idx 0
UseLecturer ==
    /\ pc = "lecturers"
    /\ \E id \in lecturer_ids :
          /\ ResolveVoice(id) \in samples
          /\ lecturer_ids' = lecturer_ids \ {id}
          /\ lecturer_id' = <<id>>
          /\ voice_path' = ResolveVoice(id)
    /\ qi' = 0
    /\ pc' = "questions"
    /\ UNCHANGED <<ctlFixed, runVars>>

\* the question belongs to another lecturer
OtherLecturer ==
    /\ pc = "questions"
    /\ qi < Len(xml)
    /\ ~use_single
    /\ question_lecturer(xml[qi + 1]) # lecturer_id[1]
    /\ qi' = qi + 1
    /\ UNCHANGED <<ctlFixed, pc, lecturer_ids, lecturer_id, voice_path,
                   runVars>>

\* model.generate with the cloned voice, then question_{idx}.wav
GenerateAudio ==
    /\ pc = "questions"
    /\ qi < Len(xml)
    /\ use_single \/ question_lecturer(xml[qi + 1]) = lecturer_id[1]
    /\ Truthy(tts_text(xml[qi + 1]))
    /\ units' = Append(units, Speech(qi, tts_text(xml[qi + 1]), voice_path))
    /\ saved' = Append(saved, File("question", qi))
    /\ qi' = qi + 1
    /\ UNCHANGED <<ctlFixed, pc, lecturer_ids, lecturer_id, voice_path>>

\* "No TTS text for question {idx}, skipping."
NoTtsText ==
    /\ pc = "questions"
    /\ qi < Len(xml)
    /\ use_single \/ question_lecturer(xml[qi + 1]) = lecturer_id[1]
    /\ ~Truthy(tts_text(xml[qi + 1]))
    /\ qi' = qi + 1
    /\ UNCHANGED <<ctlFixed, pc, lecturer_ids, lecturer_id, voice_path,
                   runVars>>

\* the inner loop is exhausted
EndLecturer ==
    /\ pc = "questions"
    /\ qi = Len(xml)
    /\ pc' = "lecturers"
    /\ UNCHANGED <<ctlFixed, lecturer_ids, lecturer_id, voice_path, qi,
                   runVars>>

\* "TTS generation completed successfully!"
FinishCtl ==
    /\ pc = "lecturers"
    /\ lecturer_ids = {}
    /\ pc' = "done"
    /\ UNCHANGED <<ctlFixed, lecturer_ids, lecturer_id, voice_path, qi,
                   runVars>>

NextCtl ==
    \/ StartCtl
    \/ SkipLecturer
    \/ UseLecturer
    \/ OtherLecturer
    \/ GenerateAudio
    \/ NoTtsText
    \/ EndLecturer
    \/ FinishCtl

SpecCtl == InitCtl /\ [][NextCtl]_vars

---------------------------------------------------------------------------
(* Properties of the normalizer (SpecNorm) and of the assembler            *)
(* (SpecParts).                                                            *)

Returned(fn) == pc = "returned" /\ args.fn = fn

\* C3: for every input and either mode, the result of to_spoken_english
\* contains no backslash immediately followed by an ASCII letter.
C3_NoCommandInOutput ==
    (pc = "returned" /\ spoken.exc = None) =>
        \A i \in 1..(Len(spoken.val) - 1) :
            ~(spoken.val[i] = "\\" /\ spoken.val[i + 1] \in Letter)

\* The form '<letter>: <body>' read off the option text itself: the letter is
\* the first non-blank character, the colon the next one, the body the rest.
LabelSplits(opt) ==
    { s \in (DOMAIN opt) \X (DOMAIN opt) :
        /\ s[1] < s[2]
        /\ opt[s[1]] \in Letter
        /\ opt[s[2]] = ":"
        /\ \A j \in 1..(s[2] - 1) : j # s[1] => opt[j] \in Space }

ClaimedLabel(opt, i) ==
    IF LabelSplits(opt) = {} THEN letters[i + 1]
    ELSE ToUpper(opt[(CHOOSE s \in LabelSplits(opt) : TRUE)[1]])

ClaimedBody(opt) ==
    IF LabelSplits(opt) = {} THEN opt
    ELSE SubSeq(opt, (CHOOSE s \in LabelSplits(opt) : TRUE)[2] + 1, Len(opt))

ClaimedOption(opt, i) ==
    <<"O", "p", "t", "i", "o", "n", " ", ClaimedLabel(opt, i), ":", " ">>
        \o to_spoken_english(ClaimedBody(opt)) \o <<".">>

\* C1: build_question_parts labels every option in input order (the
\* upper-cased leading letter of '<letter>: <body>', else the i-th of A..F),
\* renders each as 'Option <Label>: <normalized body>.' and joins the
\* rendered options by single spaces, for up to six options.
C1_OptionsLabelledAndRendered ==
    (Returned("build_question_parts")
        /\ Len(args.options) <= Len(letters)) =>
        /\ parts.exc = None
        /\ parts.val.part_options =
               Join([i \in DOMAIN args.options |->
                        ClaimedOption(args.options[i], i - 1)], 1)

Punctuation ==
    {"(", ")", "[", "]", ":", ",", "?", "=", "+", "-", "*", "/", "^"}

PunctuationAt(seg) == {p \in DOMAIN seg : seg[p] \in Punctuation}

AnswerLead ==
    <<"T", "h", "e", " ", "c", "o", "r", "r", "e", "c", "t", " ", "a", "n",
      "s", "w", "e", "r", " ", "i", "s", " ", "o", "p", "t", "i", "o", "n",
      " ">>

ExplanationLead == <<"E", "x", "p", "l", "a", "n", "a", "t", "i", "o", "n">>

\* the colons that directly follow "Option <Label>"
OptionColons(seg) ==
    { p \in DOMAIN seg :
        /\ p > 8
        /\ SubSeq(seg, p - 8, p - 2) = <<"O", "p", "t", "i", "o", "n", " ">>
        /\ seg[p] = ":" }

\* C4 as stated: in literal mode no segment the assembler returns contains
\* any of the punctuation characters ( ) [ ] : , ? = + - * / ^.
C4_NoPunctuationInSegments ==
    (READING_MODE = "literal" /\ pc = "returned") =>
        /\ (args.fn = "build_question_parts" /\ parts.exc = None) =>
              /\ PunctuationAt(parts.val.part_intro_question) = {}
              /\ PunctuationAt(parts.val.part_options) = {}
        /\ (args.fn = "build_answer_text" /\ answer.exc = None) =>
              PunctuationAt(answer.val) = {}
        /\ args.fn = "build_explanation_text" =>
              PunctuationAt(explanation.val) = {}

\* C4, amended: in literal mode the only punctuation in a segment is that of
\* its fixed template: the comma of the intro phrase, one colon after each
\* "Option <Label>", the colon after "option <Label>" of the answer text,
\* the colon of "Explanation:".  The normalized text itself has none.
C4_OnlyTemplatePunctuation ==
    (READING_MODE = "literal" /\ pc = "returned") =>
        /\ (args.fn = "build_question_parts" /\ parts.exc = None) =>
              /\ PunctuationAt(parts.val.part_intro_question) =
                     PunctuationAt(INTRO_PROMPT)
              /\ PunctuationAt(parts.val.part_options) =
                     OptionColons(parts.val.part_options)
              /\ Cardinality(OptionColons(parts.val.part_options)) =
                     Len(args.options)
        /\ (args.fn = "build_answer_text" /\ answer.exc = None) =>
              PunctuationAt(answer.val) = {Len(AnswerLead) + 2}
        /\ args.fn = "build_explanation_text" =>
              PunctuationAt(explanation.val) = {Len(ExplanationLead) + 1}

\* a literal-mode call whose question text and options carry punctuation
C4_Witness ==
    /\ READING_MODE = "literal"
    /\ Returned("build_question_parts")
    /\ parts.exc = None
    /\ PunctuationAt(args.text) # {}
    /\ \E i \in DOMAIN args.options : PunctuationAt(args.options[i]) # {}
    /\ PunctuationAt(parts.val.part_intro_question) =
           PunctuationAt(INTRO_PROMPT)

OutOfRange(i, options) == i < 0 \/ i >= Len(options) \/ i >= Len(letters)

SaysOptionA(text) ==
    /\ Len(text) > Len(AnswerLead) + 2
    /\ SubSeq(text, 1, Len(AnswerLead) + 2) = AnswerLead \o <<"A", ":">>

\* C6 as stated: for every out-of-range index (negative, >= number of
\* options, or >= 6) build_answer_text returns a sentence with label A.
C6_OutOfRangeFallsBackToA ==
    (Returned("build_answer_text")
        /\ OutOfRange(args.correct_idx, args.options)) =>
        answer.exc = None /\ SaysOptionA(answer.val)

\* C6, amended: an out-of-range index gives the sentence with label A exactly
\* when Python can still index the options with it (6 <= idx < len(options),
\* or -len(options) <= idx < 0); for idx >= len(options) and for
\* idx < -len(options) the call raises IndexError.
C6_FallbackOnlyWhenIndexable ==
    (Returned("build_answer_text")
        /\ OutOfRange(args.correct_idx, args.options)) =>
        IF /\ 0 - Len(args.options) <= args.correct_idx
           /\ args.correct_idx < Len(args.options)
        THEN answer.exc = None /\ SaysOptionA(answer.val)
        ELSE answer.exc = "IndexError"

\* index 6 into a list of seven options: the fallback label is used
C6_Witness ==
    /\ Returned("build_answer_text")
    /\ args.correct_idx = Len(letters)
    /\ Len(args.options) > Len(letters)
    /\ answer.exc = None
    /\ answer.val[Len(AnswerLead) + 1] = "A"

\* the label heard for the option at Python index i: the character after the
\* i-th "Option " of the options segment
HeardLabel(options, i) ==
    LET before == build_question_parts(0, "", <<>>, SubSeq(options, 1, i))
        all == build_question_parts(0, "", <<>>, options)
        skip == IF i = 0 THEN 0 ELSE Len(before.val.part_options) + 1
    IN  all.val.part_options[skip + 8]

\* C10: for every option list and valid index i, the letter build_answer_text
\* speaks equals the label build_question_parts speaks for option i.
C10_AnswerLetterIsHeardLabel ==
    (Returned("build_answer_text")
        /\ 0 <= args.correct_idx
        /\ args.correct_idx < Len(args.options)
        /\ build_question_parts(0, "", <<>>, args.options).exc = None) =>
        /\ answer.exc = None
        /\ answer.val[Len(AnswerLead) + 1] =
               HeardLabel(args.options, args.correct_idx)

---------------------------------------------------------------------------
(* Properties of main (SpecMain).                                          *)

UnitsOf(kind, k) ==
    {u \in DOMAIN units : units[u].kind = kind /\ units[u].idx = k}

TextOf(kind, k) == units[CHOOSE u \in UnitsOf(kind, k) : TRUE].text

Written(kind, k) == \E f \in DOMAIN saved : saved[f] = File(kind, k)

\* main carried out the loop body for record k
Processed(k) == k < idx /\ bank[k].text # <<>>

ValidAnswer(q) ==
    /\ q.corr # <<>>
    /\ PyInt(Strip(q.corr[1])).exc = None
    /\ PyInt(Strip(q.corr[1])).val \in 0..(Len(ParseOptions(q)) - 1)

BadAnswer(q) == q.corr # <<>> /\ ~ValidAnswer(q)

Occurs(pat, t) == \E i \in DOMAIN t : StartsWithAt(t, i, pat)

Combining ==
    ~EXPLANATION_SEPARATE_FILE /\ INCLUDE_CORRECT_ANSWER /\ INCLUDE_EXPLANATION

\* C2: with EXPLANATION_SEPARATE_FILE off and answer and explanation on,
\* every processed question with a valid answer index and an explanation
\* gets exactly one combined unit, whose text is question, options, answer,
\* explanation in that order; answer and explanation are never synthesized
\* on their own.
C2_OneCombinedUnitInOrder ==
    Combining =>
        \A k \in DOMAIN bank :
            (Processed(k) /\ ValidAnswer(bank[k]) /\ bank[k].expl # <<>>) =>
                /\ Cardinality(UnitsOf("combined", k)) = 1
                /\ UnitsOf("answer", k) = {}
                /\ UnitsOf("explanation", k) = {}
                /\ ~Written("answer", k) /\ ~Written("explanation", k)
                /\ TextOf("combined", k) =
                       TextOf("question", k) \o <<" ">>
                       \o TextOf("options", k) \o <<" ">>
                       \o build_answer_text(
                              PyInt(Strip(bank[k].corr[1])).val,
                              ParseOptions(bank[k])).val \o <<" ">>
                       \o build_explanation_text(
                              Strip(bank[k].expl[1])).val

\* a finished run that combined the four parts of some question
C2_Witness ==
    /\ pc = "done"
    /\ Combining
    /\ \E k \in DOMAIN bank :
          /\ Processed(k) /\ ValidAnswer(bank[k]) /\ bank[k].expl # <<>>
          /\ Written("combined", k)
          /\ Occurs(AnswerLead, TextOf("combined", k))

\* C5: once the startup checks passed, a failure on one question never
\* aborts the batch: when the run has ended, every later record that has a
\* <Text> has been processed and has its qNN audio.
C5_FailureNeverAbortsBatch ==
    pc = "crashed" =>
        \A k \in (idx + 1)..Len(bank) :
            bank[k].text # <<>> =>
                UnitsOf("question", k) # {} /\ Written("q", k)

\* C7: with answers enabled, a question whose index is unparseable or out of
\* 0..len(options)-1 gets no answer audio and no answer part in a combined
\* unit, its qNN audio is produced, and the index never stops the run (main
\* only ever stops before a question's qNN audio, never while handling the
\* answer).
C7_BadIndexMeansNoAnswer ==
    INCLUDE_CORRECT_ANSWER =>
        /\ \A k \in DOMAIN bank :
              (Processed(k) /\ BadAnswer(bank[k])) =>
                  /\ UnitsOf("answer", k) = {}
                  /\ ~Written("answer", k)
                  /\ \A u \in UnitsOf("combined", k) :
                        ~Occurs(AnswerLead, units[u].text)
                  /\ Cardinality(UnitsOf("question", k)) = 1
                  /\ Cardinality(UnitsOf("options", k)) = 1
                  /\ Written("q", k)
        /\ pc = "crashed" => UnitsOf("question", idx) = {}

\* a finished run that went on to the next question after a bad index
C7_Witness ==
    /\ pc = "done"
    /\ INCLUDE_CORRECT_ANSWER
    /\ \E k \in DOMAIN bank :
          /\ Processed(k) /\ BadAnswer(bank[k])
          /\ PyInt(Strip(bank[k].corr[1])).exc = "ValueError"
          /\ k < Len(bank) /\ Processed(k + 1)
          /\ Written("q", k) /\ Written("q", k + 1)

---------------------------------------------------------------------------
(* Properties of generate_tts (SpecCtl).  Question k of xml has idx k - 1. *)

SpeechOf(k) == {u \in DOMAIN units : units[u].idx = k - 1}

HasTtsText(q) == q.tts # <<>> /\ Truthy(q.tts[1])

NamesLecturer(q) == q.lecturer # <<>> /\ Truthy(q.lecturer[1])

MultiVoiceDone == pc = "done" /\ voice = <<>>

SpokenOnceWith(k, path) ==
    /\ Cardinality(SpeechOf(k)) = 1
    /\ \A u \in SpeechOf(k) : units[u].voice = path

\* C8: in multi-voice mode the questions of a lecturer whose own sample is
\* missing are synthesized with berninger.wav; when that is missing too,
\* none of them is synthesized, while the questions of lecturers whose
\* sample exists are synthesized with it.
C8_FallbackToDefaultVoice ==
    MultiVoiceDone =>
        \A k \in DOMAIN xml :
            (NamesLecturer(xml[k]) /\ HasTtsText(xml[k])) =>
                IF <<"voices", xml[k].lecturer[1]>> \in samples
                THEN SpokenOnceWith(k, <<"voices", xml[k].lecturer[1]>>)
                ELSE IF <<"voices", "berninger">> \in samples
                     THEN SpokenOnceWith(k, <<"voices", "berninger">>)
                     ELSE SpeechOf(k) = {}

\* meyer.wav is missing, berninger.wav exists, meyer's question was spoken
C8_Witness ==
    /\ MultiVoiceDone
    /\ <<"voices", "meyer">> \notin samples
    /\ \E k \in DOMAIN xml :
          /\ xml[k].lecturer = <<"meyer">>
          /\ HasTtsText(xml[k])
          /\ SpokenOnceWith(k, <<"voices", "berninger">>)

\* C9: in multi-voice mode every question whose LecturerID is missing or
\* empty, that has TTS text, is synthesized exactly once with the default
\* lecturer's voice when berninger.wav exists.
C9_NoLecturerMeansDefault ==
    (MultiVoiceDone /\ <<"voices", "berninger">> \in samples) =>
        \A k \in DOMAIN xml :
            (~NamesLecturer(xml[k]) /\ HasTtsText(xml[k])) =>
                SpokenOnceWith(k, <<"voices", "berninger">>)

=============================================================================
